---- MODULE Spec2Model ----
(***************************************************************************)
(* A model of garmindownloader: the command line (cli.py), the date range  *)
(* generator, the two metric fetchers, the CSV writer and the fetch        *)
(* orchestrator (downloader.py).                                           *)
(*                                                                         *)
(* Text is modelled as sequences of one-character strings, so that         *)
(* splitting, stripping, parsing and formatting are computed the way the   *)
(* code computes them.                                                     *)
(***************************************************************************)
EXTENDS Integers, Sequences, FiniteSets, TLC

VARIABLES
    month_str,      \* parse_months: the argument under parse
    month_list,     \* parse_months: its outcome
    days_call,      \* get_days_of_month: month, year and the date of today
    date_list,      \* get_days_of_month: its outcome
    fetch_call,     \* a fetcher alone: its arguments, the day and the service
    fetch_result,   \* a fetcher alone: its outcome
    write_call,     \* write_data alone: its arguments and the directory
    write_result,   \* write_data alone: its outcome
    caller,         \* who calls fetch_data: "main" or a "direct" caller
    argv,           \* the command line: year, month and --datatype texts
    args,           \* year, month list and datatype list given to fetch_data
    pc,             \* where the program is
    exit_status,    \* the exit status of the process, -1 while it runs
    stderr,         \* what was printed to the error stream
    today,          \* datetime.date.today() of the run
    remote,         \* what the remote service holds
    api,            \* the session handle of fetch_data, 0 before it has one
    sessions,       \* the sessions created so far
    kind_i,         \* the outer loop of fetch_data: index in the datatype list
    month_i,        \* the inner loop of fetch_data: index in the month list
    data,           \* the rows the last fetcher returned
    filename,       \* the file name the last fetcher returned
    log,            \* the fetcher and write_data invocations of fetch_data
    files,          \* the working directory: file name -> lines
    files0,         \* the working directory before the run
    calls,          \* the remote metric calls issued so far
    exc,            \* the exception fetch_data raised, if any
    environ,        \* os.environ: variable name -> value
    logins          \* the token stores the Garmin client was told to log in with

parse_vars == <<month_str, month_list>>
days_vars  == <<days_call, date_list>>
fetch_vars == <<fetch_call, fetch_result>>
write_vars == <<write_call, write_result>>

\* the variables of the functions taken alone
unit_vars == <<parse_vars, days_vars, fetch_vars, write_vars>>

main_vars ==
    <<caller, argv, args, pc, exit_status, stderr, today, remote, api, sessions, kind_i,
      month_i, data, filename, log, files, files0, calls, exc, environ, logins>>

env_vars == <<environ, logins>>

vars == <<unit_vars, main_vars>>

----------------------------------------------------------------------------
(* Bounds of the model *)

MaxStrLen == 4      \* longest month argument given to parse_months alone

Alphabet == {"0", "1", "2", "3", "-", "a", " ", "+"}

Range(s) == {s[i] : i \in 1..Len(s)}

StringsUpTo(alphabet, n) == UNION {[1..k -> alphabet] : k \in 0..n}

----------------------------------------------------------------------------
(* Python text primitives used by cli.py and downloader.py *)

Digits == <<"0", "1", "2", "3", "4", "5", "6", "7", "8", "9">>

IsDigit(c) == \E i \in 1..10 : Digits[i] = c

DigitVal(c) == (CHOOSE i \in 1..10 : Digits[i] = c) - 1

IsSpace(c) == c = " "

RECURSIVE lstrip(_)
lstrip(s) == IF s # <<>> /\ IsSpace(Head(s)) THEN lstrip(Tail(s)) ELSE s

RECURSIVE rstrip(_)
rstrip(s) ==
    IF s # <<>> /\ IsSpace(s[Len(s)]) THEN rstrip(SubSeq(s, 1, Len(s) - 1)) ELSE s

\* str.strip()
strip(s) == rstrip(lstrip(s))

RECURSIVE SplitFrom(_, _, _, _)
SplitFrom(s, sep, acc, cur) ==
    IF s = <<>> THEN Append(acc, cur)
    ELSE IF Head(s) = sep THEN SplitFrom(Tail(s), sep, Append(acc, cur), <<>>)
    ELSE SplitFrom(Tail(s), sep, acc, Append(cur, Head(s)))

\* str.split(sep): the pieces between the separators, empty pieces included
split(s, sep) == SplitFrom(s, sep, <<>>, <<>>)

RECURSIVE DigitsValue(_, _)
DigitsValue(s, acc) ==
    IF s = <<>> THEN acc ELSE DigitsValue(Tail(s), acc * 10 + DigitVal(Head(s)))

\* int(text): surrounding white space, an optional sign, then decimal digits;
\* anything else is a ValueError (ok = FALSE)
py_int(s) ==
    LET t      == strip(s)
        signed == t # <<>> /\ Head(t) \in {"+", "-"}
        body   == IF signed THEN Tail(t) ELSE t
    IN  IF body # <<>> /\ \A i \in 1..Len(body) : IsDigit(body[i])
        THEN [ok  |-> TRUE,
              val |-> IF signed /\ Head(t) = "-"
                      THEN 0 - DigitsValue(body, 0) ELSE DigitsValue(body, 0)]
        ELSE [ok |-> FALSE, val |-> 0]

RECURSIVE str(_)
\* str(n) / f"{n}" of an integer n >= 0
str(n) == IF n < 10 THEN <<Digits[n + 1]>> ELSE Append(str(n \div 10), Digits[(n % 10) + 1])

\* f"{n:02d}" of an integer n >= 0
format02d(n) == IF Len(str(n)) < 2 THEN <<"0">> \o str(n) ELSE str(n)

\* list(range(a, b))
range(a, b) == [i \in 1..(IF b > a THEN b - a ELSE 0) |-> a + i - 1]

----------------------------------------------------------------------------
(* cli.py: parse_months *)

Parsed(list) == [ok |-> TRUE, value |-> list, error |-> "none"]

ArgumentTypeError(msg) == [ok |-> FALSE, value |-> <<>>, error |-> msg]

\* a month range that lacks the test of its upper end
InvalidMonthRange_NoUpper(start_month, end_month) ==
    start_month < 1 \/ start_month > end_month

InvalidMonthRange(start_month, end_month) ==
    start_month < 1 \/ end_month > 12 \/ start_month > end_month

parse_months(s) ==
    IF "-" \in Range(s)
    THEN \* Range of months
         LET parts == split(s, "-")
             ints  == [i \in 1..Len(parts) |-> py_int(parts[i])]
         IN  IF Len(parts) # 2 \/ \E i \in 1..Len(parts) : ~ints[i].ok
             THEN ArgumentTypeError("Invalid month range")
             ELSE LET start_month == ints[1].val
                      end_month   == ints[2].val
                  IN  IF InvalidMonthRange(start_month, end_month)
                      THEN ArgumentTypeError("Invalid month range")
                      ELSE Parsed(range(start_month, end_month + 1))
    ELSE \* Single month
         LET m == py_int(s)
         IN  IF ~m.ok
             THEN ArgumentTypeError("Month must be a number between 1 and 12")
             ELSE IF m.val < 1 \/ m.val > 12
                  THEN ArgumentTypeError("Month must be a number between 1 and 12")
                  ELSE Parsed(<<m.val>>)

----------------------------------------------------------------------------
(* Dates: datetime.date and calendar.monthrange as downloader.py uses them *)

date(y, m, d) == [year |-> y, month |-> m, day |-> d]

\* calendar.isleap
isleap(y) == y % 4 = 0 /\ (y % 100 # 0 \/ y % 400 = 0)

mdays == <<31, 28, 31, 30, 31, 30, 31, 31, 30, 31, 30, 31>>

\* calendar.monthrange(year, month)[1]
monthrange_days(y, m) == mdays[m] + (IF m = 2 /\ isleap(y) THEN 1 ELSE 0)

\* date < date
date_lt(a, b) ==
    \/ a.year < b.year
    \/ a.year = b.year /\ a.month < b.month
    \/ a.year = b.year /\ a.month = b.month /\ a.day < b.day

\* min(a, b) of two dates
date_min(a, b) == IF date_lt(b, a) THEN b ELSE a

days_before_year(y) ==
    (y - 1) * 365 + ((y - 1) \div 4) - ((y - 1) \div 100) + ((y - 1) \div 400)

RECURSIVE days_before_month(_, _)
days_before_month(y, m) ==
    IF m = 1 THEN 0 ELSE days_before_month(y, m - 1) + monthrange_days(y, m - 1)

\* date.toordinal()
toordinal(d) == days_before_year(d.year) + days_before_month(d.year, d.month) + d.day

\* date.fromordinal(n), by the 400/100/4/1 year cycles
fromordinal(n) ==
    LET n0   == n - 1
        n400 == n0 \div 146097
        r400 == n0 % 146097
        n100 == r400 \div 36524
        r100 == r400 % 36524
        n4   == r100 \div 1461
        r4   == r100 % 1461
        n1   == r4 \div 365
        r1   == r4 % 365
        y    == n400 * 400 + 1 + n100 * 100 + n4 * 4 + n1
    IN  IF n1 = 4 \/ n100 = 4 THEN date(y - 1, 12, 31)
        ELSE LET m == CHOOSE k \in 1..12 :
                          /\ days_before_month(y, k) <= r1
                          /\ r1 < days_before_month(y, k) + monthrange_days(y, k)
             IN  date(y, m, r1 - days_before_month(y, m) + 1)

\* (a - b).days
days_between(a, b) == toordinal(a) - toordinal(b)

\* d + datetime.timedelta(days=i)
add_days(d, i) == fromordinal(toordinal(d) + i)

\* str(date) / date.isoformat(): YYYY-MM-DD
isoformat(d) ==
    LET y == str(d.year)
        pad == [i \in 1..(4 - Len(y)) |-> "0"]
    IN  (IF Len(y) < 4 THEN pad \o y ELSE y) \o <<"-">> \o format02d(d.month)
            \o <<"-">> \o format02d(d.day)

----------------------------------------------------------------------------
(* downloader.py: get_days_of_month *)

\* an upper bound that forgets today
to_date_EndOfMonth(on_day, end_of_month) == end_of_month

to_date(on_day, end_of_month) == date_min(on_day, end_of_month)

\* a list that holds the first day of the month whatever the day of today
get_days_of_month_AtLeastFirst(month, year, on_day) ==
    LET last_day_of_month == monthrange_days(year, month)
        end_of_month      == date(year, month, last_day_of_month)
        from_date         == date(year, month, 1)
        upto              == to_date(on_day, end_of_month)
        count             == days_between(upto, from_date) + 1
    IN  [i \in 1..(IF count > 0 THEN count ELSE 1) |-> add_days(from_date, i - 1)]

\* range() of a number that is not positive is empty
get_days_of_month(month, year, on_day) ==
    LET last_day_of_month == monthrange_days(year, month)
        end_of_month      == date(year, month, last_day_of_month)
        from_date         == date(year, month, 1)
        upto              == to_date(on_day, end_of_month)
        count             == days_between(upto, from_date) + 1
    IN  [i \in 1..(IF count > 0 THEN count ELSE 0) |-> add_days(from_date, i - 1)]

----------------------------------------------------------------------------
(* Values held in rows, and their text in a CSV cell *)

VNone        == [t |-> "None", i |-> 0, s |-> <<>>]
VInt(n)      == [t |-> "int", i |-> n, s |-> <<>>]
VStr(text)   == [t |-> "str", i |-> 0, s |-> text]
\* a datetime.datetime, held as its whole seconds since the epoch
VDatetime(n) == [t |-> "datetime", i |-> n, s |-> <<>>]

\* datetime.datetime.fromtimestamp(seconds), the local zone taken as UTC
fromtimestamp(seconds) ==
    LET d == fromordinal(719163 + (seconds \div 86400))
        r == seconds % 86400
    IN  [year |-> d.year, month |-> d.month, day |-> d.day,
         hour |-> r \div 3600, minute |-> (r % 3600) \div 60, second |-> r % 60]

\* str(datetime): YYYY-MM-DD HH:MM:SS
str_datetime(dt) ==
    isoformat(date(dt.year, dt.month, dt.day)) \o <<" ">> \o format02d(dt.hour)
        \o <<":">> \o format02d(dt.minute) \o <<":">> \o format02d(dt.second)

\* the text csv writes for a value: None is the empty text
cell_text(v) ==
    CASE v.t = "None"     -> <<>>
      [] v.t = "int"      -> str(v.i)
      [] v.t = "str"      -> v.s
      [] v.t = "datetime" -> str_datetime(fromtimestamp(v.i))

----------------------------------------------------------------------------
(* constants.py, exceptions.py, __init__.py *)

BB == <<"b", "b">>
HR == <<"h", "r">>

F_date      == <<"d", "a", "t", "e">>
F_charged   == <<"c", "h", "a", "r", "g", "e", "d">>
F_drained   == <<"d", "r", "a", "i", "n", "e", "d">>
F_max       == <<"m", "a", "x">>
F_min       == <<"m", "i", "n">>
F_timestamp == <<"t", "i", "m", "e", "s", "t", "a", "m", "p">>
F_heartrate == <<"h", "e", "a", "r", "t", "r", "a", "t", "e">>

\* a table whose field lists are exchanged between the two kinds
DATATYPE_TO_FUNCTION_Swapped ==
    (BB :> [func |-> "fetch_bb_data", fieldnames |-> <<F_timestamp, F_heartrate>>])
    @@ (HR :> [func |-> "fetch_hr_data",
               fieldnames |-> <<F_date, F_charged, F_drained, F_max, F_min>>])

DATATYPE_TO_FUNCTION ==
    (BB :> [func |-> "fetch_bb_data",
            fieldnames |-> <<F_date, F_charged, F_drained, F_max, F_min>>])
    @@ (HR :> [func |-> "fetch_hr_data", fieldnames |-> <<F_timestamp, F_heartrate>>])

\* the exception class exceptions.py defines and downloader.py raises
GarmindownloaderException == "GarmindownloaderException"

\* the exception class __init__.py imports and exports, and the tests expect
GarmindownloaderError == "GarmindownloaderError"

NoException == [type |-> "none", msg |-> <<>>, cause |-> "none", origin |-> "none"]

Raised(type, msg, cause, origin) ==
    [type |-> type, msg |-> msg, cause |-> cause, origin |-> origin]

----------------------------------------------------------------------------
(* The remote service, as the Garmin Connect client answers.  A service     *)
(* holds the per-day objects a ranged body battery query answers with, and  *)
(* the answers of the single-day heart rate query: one for the first day of *)
(* a month, one for the second, one for every other day.                    *)

\* an answer of the heart rate query: the key heartRateValues is absent, or
\* null, or a list of (epoch_millis, bpm) pairs
HrAnswer(key, pairs) == [key |-> key, heartRateValues |-> pairs]

\* n samples of the d-th day of the epoch, a minute apart
HrPairs(d, n) ==
    [j \in 1..n |-> <<86400000 * (d - 1) + 61000 * j + 999, 49 + 10 * d + j>>]

\* the service that holds n items: n per-day objects, the k-th of k - 1
\* readings, and n heart rate samples on the first day of a month only
ServiceOf(n) ==
    [bb |-> [k \in 1..n |->
                [charged |-> 50 + k, drained |-> 40 + k,
                 samples |-> [j \in 1..(k - 1) |-> VInt(10 * j + 20 * k)]]],
     hr |-> [first  |-> IF n = 0 THEN HrAnswer("null", <<>>)
                        ELSE HrAnswer("list", HrPairs(1, n)),
             second |-> HrAnswer("null", <<>>),
             other  |-> HrAnswer("null", <<>>)]]

\* the k-th per-day object of an answer to a query from `start`
BodyBatteryDay(service, k, start) ==
    [date |-> start, charged |-> service.bb[k].charged, drained |-> service.bb[k].drained,
     bodyBatteryValuesArray |->
         [j \in 1..Len(service.bb[k].samples) |-> <<j, service.bb[k].samples[j]>>]]

get_body_battery(service, start, end) ==
    [k \in 1..Len(service.bb) |-> BodyBatteryDay(service, k, start)]

get_heart_rates(service, day) ==
    IF SubSeq(day, 9, 10) = <<"0", "1">> THEN service.hr.first
    ELSE IF SubSeq(day, 9, 10) = <<"0", "2">> THEN service.hr.second
    ELSE service.hr.other

\* a remote call as the client receives it
Request(op, arguments) == [op |-> op, args |-> arguments]

----------------------------------------------------------------------------
(* downloader.py: fetch_bb_data, fetch_hr_data *)

\* what a fetcher call comes to: rows and a file name, or an exception, after
\* the remote calls `requests`
Fetched(rows, name, requests) ==
    [raised |-> "none", data |-> rows, filename |-> name, calls |-> requests]

FetchRaised(type, requests) ==
    [raised |-> type, data |-> <<>>, filename |-> <<>>, calls |-> requests]

\* max(readings) under `except (ValueError, TypeError)`: an empty list is a
\* ValueError, a None compared with another reading a TypeError
bbmax(readings) ==
    IF readings = <<>> THEN VNone
    ELSE IF \E i \in 1..Len(readings) : readings[i].t = "None" THEN VNone
    ELSE VInt(CHOOSE m \in {readings[i].i : i \in 1..Len(readings)} :
                  \A i \in 1..Len(readings) : readings[i].i <= m)

\* a least reading computed as the greatest is
bbmin_AsMax(readings) == bbmax(readings)

bbmin(readings) ==
    IF readings = <<>> THEN VNone
    ELSE IF \E i \in 1..Len(readings) : readings[i].t = "None" THEN VNone
    ELSE VInt(CHOOSE m \in {readings[i].i : i \in 1..Len(readings)} :
                  \A i \in 1..Len(readings) : readings[i].i >= m)

bb_row(day) ==
    LET readings == [i \in 1..Len(day.bodyBatteryValuesArray) |->
                        day.bodyBatteryValuesArray[i][2]]
    IN  (F_date :> VStr(day.date)) @@ (F_charged :> VInt(day.charged))
        @@ (F_drained :> VInt(day.drained))
        @@ (F_max :> bbmax(readings)) @@ (F_min :> bbmin(readings))

\* a file name without the zero padding of the month
filename_of_Unpadded(kind, year, month) ==
    kind \o str(year) \o str(month) \o <<".", "c", "s", "v">>

\* f"{kind}{year}{month:02d}.csv"
filename_of(kind, year, month) ==
    kind \o str(year) \o format02d(month) \o <<".", "c", "s", "v">>

\* a fetcher that returns no rows for a month without days
fetch_bb_data_EmptyGuard(service, RemoteErrors, year, month, on_day) ==
    LET name == filename_of(BB, year, month)
        days == get_days_of_month(month, year, on_day)
    IN  IF days = <<>> THEN {Fetched(<<>>, name, <<>>)}
        ELSE LET start       == isoformat(days[1])
                 end         == isoformat(days[Len(days)])
                 request     == Request("get_body_battery", <<start, end>>)
                 return_data == get_body_battery(service, start, end)
                 results     == [i \in 1..Len(return_data) |-> bb_row(return_data[i])]
             IN  {Fetched(results, name, <<request>>)}
                     \cup {FetchRaised(e, <<request>>) : e \in RemoteErrors}

\* a fetcher that asks for the first day alone
fetch_bb_data_StartOnly(service, RemoteErrors, year, month, on_day) ==
    LET name == filename_of(BB, year, month)
        days == get_days_of_month(month, year, on_day)
    IN  IF days = <<>> THEN {FetchRaised("IndexError", <<>>)}
        ELSE LET start       == isoformat(days[1])
                 request     == Request("get_body_battery", <<start, start>>)
                 return_data == get_body_battery(service, start, start)
                 results     == [i \in 1..Len(return_data) |-> bb_row(return_data[i])]
             IN  {Fetched(results, name, <<request>>)}
                     \cup {FetchRaised(e, <<request>>) : e \in RemoteErrors}

\* The outcomes of fetch_bb_data(api, year, month): date_list[0] of an empty
\* list is an IndexError; the one remote call answers or raises.
fetch_bb_data(service, RemoteErrors, year, month, on_day) ==
    LET name == filename_of(BB, year, month)
        days == get_days_of_month(month, year, on_day)
    IN  IF days = <<>> THEN {FetchRaised("IndexError", <<>>)}
        ELSE LET start       == isoformat(days[1])
                 end         == isoformat(days[Len(days)])
                 request     == Request("get_body_battery", <<start, end>>)
                 return_data == get_body_battery(service, start, end)
                 results     == [i \in 1..Len(return_data) |-> bb_row(return_data[i])]
             IN  {Fetched(results, name, <<request>>)}
                     \cup {FetchRaised(e, <<request>>) : e \in RemoteErrors}

\* a row whose timestamp is taken in milliseconds
hr_row_Millis(timestamp, heart_rate) ==
    (F_timestamp :> VDatetime(timestamp)) @@ (F_heartrate :> VInt(heart_rate))

\* the row of a sample: datetime.datetime.fromtimestamp(timestamp // 1000)
hr_row(timestamp, heart_rate) ==
    (F_timestamp :> VDatetime(timestamp \div 1000)) @@ (F_heartrate :> VInt(heart_rate))

RECURSIVE hr_rows(_, _, _)
\* the rows of the days from index i on: `if return_data["heartRateValues"]`
\* is false of null and of the empty list
hr_rows(service, days, i) ==
    IF i > Len(days) THEN <<>>
    ELSE LET return_data == get_heart_rates(service, isoformat(days[i]))
             pairs       == return_data.heartRateValues
             today_rows  ==
                 IF return_data.key = "list" /\ pairs # <<>>
                 THEN [j \in 1..Len(pairs) |-> hr_row(pairs[j][1], pairs[j][2])]
                 ELSE <<>>
         IN  today_rows \o hr_rows(service, days, i + 1)

\* the calls of a month of which one may raise: the first and the last
FailingCalls(n) == {1, n} \cap 1..n

\* a fetcher that leaves out the last day of the range
fetch_hr_data_SkipLast(service, RemoteErrors, year, month, on_day) ==
    LET name     == filename_of(HR, year, month)
        all_days == get_days_of_month(month, year, on_day)
        days     == SubSeq(all_days, 1, Len(all_days) - 1)
        requests == [i \in 1..Len(days) |->
                        Request("get_heart_rates", <<isoformat(days[i])>>)]
    IN  {Fetched(hr_rows(service, days, 1), name, requests)}

\* The outcomes of fetch_hr_data(api, year, month): one remote call a day,
\* each of which answers or raises; return_data["heartRateValues"] of an
\* answer without the key is a KeyError.
fetch_hr_data(service, RemoteErrors, year, month, on_day) ==
    LET name     == filename_of(HR, year, month)
        days     == get_days_of_month(month, year, on_day)
        requests == [i \in 1..Len(days) |->
                        Request("get_heart_rates", <<isoformat(days[i])>>)]
        keyless  == {i \in 1..Len(days) :
                        get_heart_rates(service, isoformat(days[i])).key = "absent"}
        last     == IF keyless = {} THEN Len(days)
                    ELSE CHOOSE i \in keyless : \A j \in keyless : i <= j
    IN  (IF keyless = {} THEN {Fetched(hr_rows(service, days, 1), name, requests)}
         ELSE {FetchRaised("KeyError", SubSeq(requests, 1, last))})
            \cup {FetchRaised(e, SubSeq(requests, 1, n)) :
                     e \in RemoteErrors, n \in FailingCalls(last)}

----------------------------------------------------------------------------
(* downloader.py: write_data *)

\* a writer that leaves out the cell of a field the row lacks
csv_lines_SkipMissing(rows, fieldnames) ==
    <<fieldnames>> \o
    [i \in 1..Len(rows) |->
        LET held == SelectSeq(fieldnames, LAMBDA f : f \in DOMAIN rows[i])
        IN  [j \in 1..Len(held) |-> cell_text(rows[i][held[j]])]]

\* the lines csv.DictWriter(fieldnames, extrasaction="ignore") writes: the
\* header, then a line a row, a cell a field name, empty where the row has none
csv_lines(rows, fieldnames) ==
    <<fieldnames>> \o
    [i \in 1..Len(rows) |->
        [j \in 1..Len(fieldnames) |->
            IF fieldnames[j] \in DOMAIN rows[i]
            THEN cell_text(rows[i][fieldnames[j]]) ELSE <<>>]]

Written(dir) == [raised |-> NoException, files |-> dir]

WriteRaised(exception, dir) == [raised |-> exception, files |-> dir]

\* the handler of write_data that lets an OSError through
write_except_OnlyCsv(cause) ==
    IF cause = "csv.Error"
    THEN Raised(GarmindownloaderException, <<"Error writing CSV file: ", cause>>,
                cause, "write_data")
    ELSE Raised(cause, <<cause>>, "none", "write_data")

\* except (OSError, csv.Error) as exc: raise GarmindownloaderException(...) from exc
write_except(cause) ==
    IF cause \in {"OSError", "csv.Error"}
    THEN Raised(GarmindownloaderException, <<"Error writing CSV file: ", cause>>,
                cause, "write_data")
    ELSE Raised(cause, <<cause>>, "none", "write_data")

\* a write_data that opens its file to append
write_data_Append(dir, rows, name, fieldnames) ==
    LET lines == csv_lines(rows, fieldnames)
        held  == IF name \in DOMAIN dir THEN dir[name] ELSE <<>>
    IN  {Written((name :> held \o lines) @@ dir)}
            \cup {WriteRaised(write_except("OSError"), dir)}
            \cup {WriteRaised(write_except(cause),
                              (name :> held \o SubSeq(lines, 1, n)) @@ dir) :
                     cause \in {"OSError", "csv.Error"}, n \in 0..Len(lines)}

\* The outcomes of write_data(data, filename, fieldnames) in a directory
\* holding `files`: the file is replaced by the lines; or open() fails and
\* the directory is as it was; or the write fails after the file was opened
\* (and so emptied), leaving any leading part of the lines in it.
write_data(dir, rows, name, fieldnames) ==
    LET lines == csv_lines(rows, fieldnames)
    IN  {Written((name :> lines) @@ dir)}
            \cup {WriteRaised(write_except("OSError"), dir)}
            \cup {WriteRaised(write_except(cause),
                              (name :> SubSeq(lines, 1, n)) @@ dir) :
                     cause \in {"OSError", "csv.Error"}, n \in 0..Len(lines)}

NotCalled == [ok |-> FALSE, value |-> <<>>, error |-> "not called"]

NoDays == [called |-> FALSE, value |-> <<>>]

NotFetched == FetchRaised("not called", <<>>)

NotWritten == WriteRaised(Raised("not called", <<>>, "none", "none"), [f \in {} |-> <<>>])

\* no fetcher and no write_data is called alone
IdleFetch ==
    /\ fetch_call = [func |-> "none", year |-> 0, month |-> 0, today |-> date(1, 1, 1),
                     service |-> ServiceOf(0)]
    /\ fetch_result = NotFetched

IdleWrite ==
    /\ write_call = [data |-> <<>>, filename |-> <<>>, fieldnames |-> <<>>,
                     files |-> [f \in {} |-> <<>>]]
    /\ write_result = NotWritten

----------------------------------------------------------------------------
(* cli.py: parse_command_line_args *)

UsageError(msg) ==
    [ok |-> FALSE, args |-> [year |-> 0, month |-> <<>>, datatype |-> <<>>], error |-> msg]

\* type=lambda s: [item.strip() for item in s.split(",")]
parse_datatype(text) ==
    LET items == split(text, ",") IN [i \in 1..Len(items) |-> strip(items[i])]

\* a validation that lets every datatype through
valid_choices_Any == {BB, HR, <<"x", "x">>, <<>>}

valid_choices == {BB, HR}

\* parser.parse_args() and the validation loop; an error ends the process
\* with argparse's usage message and exit status 2
parse_command_line_args(av) ==
    LET year  == py_int(av.year)
        month == parse_months(av.month)
    IN  IF ~year.ok THEN UsageError("argument year: invalid int value")
        ELSE IF ~month.ok THEN UsageError(month.error)
        ELSE IF ~av.datatype.given
             THEN UsageError("the following arguments are required: --datatype")
        ELSE LET datatype == parse_datatype(av.datatype.text)
             IN  IF \E i \in 1..Len(datatype) : datatype[i] \notin valid_choices
                 THEN UsageError("Invalid datatype")
                 ELSE [ok    |-> TRUE,
                       args  |-> [year |-> year.val, month |-> month.value,
                                  datatype |-> datatype],
                       error |-> "none"]

----------------------------------------------------------------------------
(* The program state: a process started from the command line (main), or a *)
(* direct call of fetch_data                                               *)

\* Bounds of the inputs
MaxArgLen  == 3     \* longest month argument on the command line
MaxMonths  == 2     \* longest month list of a direct call
MaxKinds   == 2     \* longest datatype list of a direct call
MaxSamples == 2     \* most items the remote service holds for a query
MaxRows    == 2     \* most rows given to write_data alone

ArgAlphabet == {"1", "2", "-", "a"}

YearArgs == {<<"2", "0", "2", "4">>, <<"0">>, <<"x">>}

DatatypeTexts ==
    {BB, HR \o <<",">> \o BB, BB \o <<",", " ">> \o HR, BB \o <<",">> \o BB,
     BB \o <<",", "x", "x">>}

DatatypeArgs ==
    {[given |-> FALSE, text |-> <<>>]} \cup {[given |-> TRUE, text |-> t] : t \in DatatypeTexts}

DirectYears == {2024}

DirectMonths == {2, 12}

SeqsUpTo(S, n) == UNION {[1..k -> S] : k \in 0..n}

\* the days on which a run may take place
Todays == {date(2024, 2, 15), date(2025, 1, 1)}

\* what the login of the Garmin client may raise: the two exceptions
\* create_api_session handles, and one it does not (the network is down)
LoginErrors == {"GarthHTTPError", "AssertionError", "ConnectionError"}

\* what a remote metric call may raise
RemoteErrors == {"GarthHTTPError", "ConnectionError"}

GARMIN_TOKEN_DIR == "~/.garth"
GARMIN_TOKEN_ENV == "GARMINTOKENS"

\* the environment without the variable
NoEnviron == [name \in {} |-> ""]

\* the environments of a call of create_api_session: the variable unset, set
\* to a path, set to the empty text, and another variable set
Environs ==
    {NoEnviron, GARMIN_TOKEN_ENV :> "/custom/path", GARMIN_TOKEN_ENV :> "",
     "HOME" :> "/home/user"}

\* the working directory before the run: empty, or holding a file of an
\* earlier run
StaleFile == filename_of(BB, 2024, 2) :> <<<<F_date>>, <<<<"o", "l", "d">>>>>>

NoFiles == [f \in {} |-> <<>>]

NoArgv == [year |-> <<>>, month |-> <<>>, datatype |-> [given |-> FALSE, text |-> <<>>]]

NoArgs == [year |-> 0, month |-> <<>>, datatype |-> <<>>]

NoDate == date(1, 1, 1)

InitRun ==
    /\ args = NoArgs
    /\ exit_status = -1
    /\ stderr = <<>>
    /\ today = NoDate
    /\ remote = 0
    /\ api = 0
    /\ sessions = 0
    /\ kind_i = 1
    /\ month_i = 1
    /\ data = <<>>
    /\ filename = <<>>
    /\ log = <<>>
    /\ calls = 0
    /\ exc = NoException
    /\ logins = <<>>

\* nothing of the program runs
IdleMain ==
    /\ environ = NoEnviron
    /\ caller = "none"
    /\ argv = NoArgv
    /\ pc = "none"
    /\ files = NoFiles
    /\ files0 = NoFiles
    /\ InitRun

InitMain ==
    /\ environ = NoEnviron
    /\ caller = "main"
    /\ argv \in [year : YearArgs, month : StringsUpTo(ArgAlphabet, MaxArgLen),
                 datatype : DatatypeArgs]
    /\ pc = "main"
    /\ files0 \in {NoFiles, StaleFile}
    /\ files = files0
    /\ InitRun

InitDirect ==
    /\ environ = NoEnviron
    /\ caller = "direct"
    /\ argv = NoArgv
    /\ pc = "fetch_data"
    /\ files0 \in {NoFiles, StaleFile}
    /\ files = files0
    /\ exit_status = -1
    /\ stderr = <<>>
    /\ today = NoDate
    /\ remote = 0
    /\ api = 0
    /\ sessions = 0
    /\ kind_i = 1
    /\ month_i = 1
    /\ data = <<>>
    /\ filename = <<>>
    /\ log = <<>>
    /\ calls = 0
    /\ exc = NoException
    /\ logins = <<>>
    /\ args \in [year : DirectYears, month : SeqsUpTo(DirectMonths, MaxMonths),
                 datatype : SeqsUpTo({BB, HR}, MaxKinds)]

Init ==
    /\ InitMain \/ InitDirect
    /\ month_str = <<>>
    /\ month_list = NotCalled
    /\ days_call = [year |-> 1, month |-> 1, today |-> NoDate]
    /\ date_list = NoDays
    /\ IdleFetch /\ IdleWrite

----------------------------------------------------------------------------
(* cli.py: main *)

\* main, lines 95-97: parse the command line; a usage error ends the process
\* with status 2; a year of 0 skips the fetch
MainParse ==
    /\ caller = "main" /\ pc = "main"
    /\ LET r == parse_command_line_args(argv)
       IN  IF ~r.ok
           THEN /\ pc' = "exit"
                /\ exit_status' = 2
                /\ stderr' = Append(stderr, <<"usage", r.error>>)
                /\ UNCHANGED args
           ELSE /\ args' = r.args
                /\ IF r.args.year # 0 /\ r.args.month # <<>>
                   THEN pc' = "fetch_data" /\ UNCHANGED exit_status
                   ELSE pc' = "exit" /\ exit_status' = 0
                /\ UNCHANGED stderr
    /\ UNCHANGED <<caller, argv, today, remote, api, sessions, kind_i, month_i, data,
                   filename, log, files, files0, calls, exc, unit_vars, env_vars>>

\* a handler that catches the error of the package only
main_catches_OnlyPackage(type) == type = GarmindownloaderException

\* except Exception: every exception of the run is an Exception
main_catches(type) == TRUE

\* main, lines 100-101: the exception of fetch_data is printed to the error
\* stream and main ends; an exception not caught would end the process with a
\* traceback and status 1
MainExcept ==
    /\ caller = "main" /\ pc = "raised"
    /\ IF main_catches(exc.type)
       THEN stderr' = Append(stderr, exc.msg) /\ exit_status' = 0
       ELSE stderr' = Append(stderr, <<"Traceback", exc.type>>) /\ exit_status' = 1
    /\ pc' = "exit"
    /\ UNCHANGED <<caller, argv, args, today, remote, api, sessions, kind_i, month_i,
                   data, filename, log, files, files0, calls, exc, unit_vars, env_vars>>

\* main, after line 99: fetch_data returned and main ends
MainReturn ==
    /\ caller = "main" /\ pc = "returned"
    /\ pc' = "exit"
    /\ exit_status' = 0
    /\ UNCHANGED <<caller, argv, args, stderr, today, remote, api, sessions, kind_i,
                   month_i, data, filename, log, files, files0, calls, exc, unit_vars, env_vars>>

----------------------------------------------------------------------------
(* downloader.py: create_api_session, fetch_data *)

\* a handler that wraps the HTTP error only
login_except_OnlyHTTP(cause) ==
    IF cause = "GarthHTTPError"
    THEN Raised(GarmindownloaderException, <<"Error: ", cause>>, cause, "create_api_session")
    ELSE Raised(cause, <<cause>>, "none", "create_api_session")

\* except (GarthHTTPError, AssertionError) as exc:
\*     raise GarmindownloaderException(f"Error: {exc}") from exc
login_except(cause) ==
    IF cause \in {"GarthHTTPError", "AssertionError"}
    THEN Raised(GarmindownloaderException, <<"Error: ", cause>>, cause, "create_api_session")
    ELSE Raised(cause, <<cause>>, "none", "create_api_session")

RECURSIVE enter_kind(_, _, _)
\* the head of the outer loop at the k-th datatype: the table is looked up
\* (a KeyError for an unknown datatype), and the inner loop entered unless
\* the month list is empty
enter_kind(datatype, months, k) ==
    IF k > Len(datatype) THEN [pc |-> "returned", kind_i |-> k, raised |-> "none"]
    ELSE IF datatype[k] \notin DOMAIN DATATYPE_TO_FUNCTION
         THEN [pc |-> "raised", kind_i |-> k, raised |-> "KeyError"]
    ELSE IF months = <<>> THEN enter_kind(datatype, months, k + 1)
    ELSE [pc |-> "fetch", kind_i |-> k, raised |-> "none"]

\* an inner loop that leaves out the last month
more_months_SkipLast(m, months) == m + 1 < Len(months)

\* the inner loop has a month after the m-th
more_months(m, months) == m < Len(months)

\* a loop that goes back to the top of fetch_data, logging in again
loop_back_Relogin == "fetch_data"

\* where the loops go on after a pair: at the next fetch
loop_back == "fetch"

\* an error that is swallowed: the loop goes on with the write
raise_pc_Swallow == "write"

\* where an exception leaves fetch_data: at its caller
raise_pc == "raised"

\* a token store read as os.getenv(GARMIN_TOKEN_ENV, GARMIN_TOKEN_DIR)
token_store_GetenvDefault(env) ==
    IF GARMIN_TOKEN_ENV \in DOMAIN env THEN env[GARMIN_TOKEN_ENV] ELSE GARMIN_TOKEN_DIR

\* token_store = os.getenv(GARMIN_TOKEN_ENV) or GARMIN_TOKEN_DIR
token_store(env) ==
    IF GARMIN_TOKEN_ENV \in DOMAIN env /\ env[GARMIN_TOKEN_ENV] # ""
    THEN env[GARMIN_TOKEN_ENV] ELSE GARMIN_TOKEN_DIR

\* fetch_data, line 193: the session is created, on the day of the run and
\* against the service as it is; then the loops are entered
CreateApiSession ==
    /\ pc = "fetch_data"
    /\ logins' = Append(logins, token_store(environ))
    /\ \/ /\ api' = sessions + 1
          /\ sessions' = sessions + 1
          /\ today' \in Todays
          /\ remote' \in 0..MaxSamples
          /\ LET e == enter_kind(args.datatype, args.month, 1)
             IN  /\ pc' = IF e.raised = "none" THEN e.pc ELSE raise_pc
                 /\ kind_i' = e.kind_i
                 /\ exc' = IF e.raised = "none" THEN NoException
                           ELSE Raised(e.raised, <<e.raised>>, "none", "fetch_data")
          /\ month_i' = 1
       \/ /\ \E cause \in LoginErrors : exc' = login_except(cause)
          /\ pc' = raise_pc
          /\ UNCHANGED <<api, sessions, today, remote, kind_i, month_i>>
    /\ UNCHANGED <<caller, argv, args, exit_status, stderr, data, filename, log, files,
                   files0, calls, unit_vars, environ>>

\* a call of the fetcher under a handler that wraps what it raises
fetch_except_Wrapped(cause, func) ==
    Raised(GarmindownloaderException, <<"Error: ", cause>>, cause, func)

\* fetch_data, line 200: the fetcher is called under no handler, what it
\* raises leaves fetch_data as it is
fetch_except(cause, func) == Raised(cause, <<cause>>, "none", func)

FetchOutcomes(func, year, month) ==
    IF func = "fetch_bb_data"
    THEN fetch_bb_data(ServiceOf(remote), RemoteErrors, year, month, today)
    ELSE fetch_hr_data(ServiceOf(remote), RemoteErrors, year, month, today)

\* fetch_data, line 200: the fetcher registered for the datatype is called
\* with the session, the year and the month
Fetch ==
    /\ pc = "fetch"
    /\ LET datatype == args.datatype[kind_i]
           func     == DATATYPE_TO_FUNCTION[datatype].func
           month    == args.month[month_i]
       IN  /\ log' = Append(log, [op |-> "fetch", func |-> func, api |-> api,
                                  year |-> args.year, month |-> month,
                                  filename |-> <<>>, fieldnames |-> <<>>, rows |-> 0])
           /\ \E r \in FetchOutcomes(func, args.year, month) :
                 /\ calls' = calls + Len(r.calls)
                 /\ IF r.raised = "none"
                    THEN /\ data' = r.data
                         /\ filename' = r.filename
                         /\ pc' = "write"
                         /\ UNCHANGED exc
                    ELSE /\ exc' = fetch_except(r.raised, func)
                         /\ pc' = raise_pc
                         /\ UNCHANGED <<data, filename>>
    /\ UNCHANGED <<caller, argv, args, exit_status, stderr, today, remote, api, sessions,
                   kind_i, month_i, files, files0, unit_vars, env_vars>>

\* fetch_data, line 202: the rows are written under the file name the fetcher
\* gave, with the field names of the datatype; then the loops go on
Write ==
    /\ pc = "write"
    /\ LET fieldnames == DATATYPE_TO_FUNCTION[args.datatype[kind_i]].fieldnames
       IN  /\ log' = Append(log, [op |-> "write", func |-> "write_data", api |-> 0,
                                  year |-> 0, month |-> 0, filename |-> filename,
                                  fieldnames |-> fieldnames, rows |-> Len(data)])
           /\ \E w \in write_data(files, data, filename, fieldnames) :
                 /\ files' = w.files
                 /\ IF w.raised = NoException
                    THEN IF more_months(month_i, args.month)
                         THEN /\ pc' = loop_back
                              /\ month_i' = month_i + 1
                              /\ UNCHANGED <<kind_i, exc>>
                         ELSE LET e == enter_kind(args.datatype, args.month, kind_i + 1)
                              IN  /\ pc' = IF e.raised # "none" THEN raise_pc
                                           ELSE IF e.pc = "fetch" THEN loop_back
                                           ELSE e.pc
                                  /\ kind_i' = e.kind_i
                                  /\ month_i' = 1
                                  /\ exc' = IF e.raised = "none" THEN NoException
                                            ELSE Raised(e.raised, <<e.raised>>, "none",
                                                        "fetch_data")
                    ELSE /\ exc' = w.raised
                         /\ pc' = raise_pc
                         /\ UNCHANGED <<kind_i, month_i>>
    /\ UNCHANGED <<caller, argv, args, exit_status, stderr, today, remote, api, sessions,
                   data, filename, files0, calls, unit_vars, env_vars>>

Next == MainParse \/ CreateApiSession \/ Fetch \/ Write \/ MainExcept \/ MainReturn

Spec == Init /\ [][Next]_vars


----------------------------------------------------------------------------
(* Specification of parse_months alone: any month argument, parsed once *)

InitParse ==
    /\ month_str \in StringsUpTo(Alphabet, MaxStrLen)
    /\ month_list = NotCalled
    /\ days_call = [year |-> 1, month |-> 1, today |-> NoDate]
    /\ date_list = NoDays
    /\ IdleFetch /\ IdleWrite
    /\ IdleMain

ParseMonths ==
    /\ month_list = NotCalled
    /\ month_list' = parse_months(month_str)
    /\ UNCHANGED month_str

NextParse == ParseMonths /\ UNCHANGED <<days_vars, fetch_vars, write_vars, main_vars>>

SpecParse == InitParse /\ [][NextParse]_vars

\* The text of an argument read as a numeral, computed from the value to the
\* text: white space around it, an optional plus sign and leading zeros aside,
\* the text is the decimal writing of m.
Trimmed(t) ==
    LET ink == {i \in 1..Len(t) : t[i] # " "}
    IN  IF ink = {} THEN <<>>
        ELSE SubSeq(t, CHOOSE i \in ink : \A j \in ink : i <= j,
                       CHOOSE i \in ink : \A j \in ink : i >= j)

Unsigned(t) == IF t # <<>> /\ t[1] = "+" THEN SubSeq(t, 2, Len(t)) ELSE t

WithoutLeadingZeros(t) ==
    LET nz == {i \in 1..Len(t) : t[i] # "0"}
    IN  IF nz = {} THEN <<>>
        ELSE SubSeq(t, CHOOSE i \in nz : \A j \in nz : i <= j, Len(t))

IsNumeralOf(t, m) ==
    LET u == Unsigned(Trimmed(t))
    IN  /\ u # <<>>
        /\ \A i \in 1..Len(u) : u[i] \in {"0", "1", "2", "3", "4", "5", "6", "7", "8", "9"}
        /\ WithoutLeadingZeros(u) = str(m)

IsSingleMonth(t, m) == IsNumeralOf(t, m)

IsMonthRange(t, a, b) ==
    \E i \in 1..Len(t) :
        /\ t[i] = "-"
        /\ IsNumeralOf(SubSeq(t, 1, i - 1), a)
        /\ IsNumeralOf(SubSeq(t, i + 1, Len(t)), b)

MonthsFromTo(a, b) == [i \in 1..(b - a + 1) |-> a + (i - 1)]

\* C8: parse_months accepts exactly a single month m in 1..12, giving [m], and
\* a range start-end with 1 <= start <= end <= 12, giving [start, ..., end];
\* every other text is rejected with an argument error, and no accepted list
\* holds a value outside 1..12.
C8_ParseMonthsShapes ==
    month_list # NotCalled =>
        /\ \A m \in 1..12 :
              IsSingleMonth(month_str, m) => month_list = Parsed(<<m>>)
        /\ \A a \in 1..12 : \A b \in a..12 :
              IsMonthRange(month_str, a, b) => month_list = Parsed(MonthsFromTo(a, b))
        /\ ( /\ \A m \in 1..12 : ~IsSingleMonth(month_str, m)
             /\ \A a \in 1..12 : \A b \in a..12 : ~IsMonthRange(month_str, a, b) )
           => /\ ~month_list.ok
              /\ month_list.value = <<>>
              /\ month_list.error \in {"Invalid month range",
                                        "Month must be a number between 1 and 12"}
        /\ month_list.ok =>
              \A i \in 1..Len(month_list.value) : month_list.value[i] \in 1..12

C8_Witness ==
    month_str = <<"3", "-", "1", "2">> /\ month_list = Parsed(<<3, 4, 5, 6, 7, 8, 9, 10, 11, 12>>)

----------------------------------------------------------------------------
(* Specification of get_days_of_month alone: any month of a few years, read *)
(* on any of a few days                                                     *)

DayYears == {1900, 2000, 2023, 2024}

DaysOfToday == {1, 15, 28, 29, 31}

ValidDate(d) == d.day <= monthrange_days(d.year, d.month)

TodayDates ==
    {d \in [year : DayYears, month : 1..12, day : DaysOfToday] : ValidDate(d)}

InitDays ==
    /\ days_call \in [year : DayYears, month : 1..12, today : TodayDates]
    /\ date_list = NoDays
    /\ month_str = <<>>
    /\ month_list = NotCalled
    /\ IdleFetch /\ IdleWrite
    /\ IdleMain

GetDaysOfMonth ==
    /\ ~date_list.called
    /\ date_list' = [called |-> TRUE,
                     value  |-> get_days_of_month(days_call.month, days_call.year,
                                                  days_call.today)]
    /\ UNCHANGED days_call

NextDays == GetDaysOfMonth /\ UNCHANGED <<parse_vars, fetch_vars, write_vars, main_vars>>

SpecDays == InitDays /\ [][NextDays]_vars

\* the length of a month by the calendar
CalendarLength(y, m) ==
    IF m \in {4, 6, 9, 11} THEN 30
    ELSE IF m # 2 THEN 31
    ELSE IF (y % 4 = 0 /\ y % 100 # 0) \/ y % 400 = 0 THEN 29 ELSE 28

FirstDayNotAfterToday(c) ==
    \/ c.year < c.today.year
    \/ c.year = c.today.year /\ c.month <= c.today.month

TodayInMonth(c) == c.year = c.today.year /\ c.month = c.today.month

\* C9: for a month whose first day is not after today, get_days_of_month gives
\* the days 1, 2, ... of the month in ascending order up to min(last day of
\* the month, today): the whole calendar month when it is past, the days up
\* to today when today lies in it.
C9_DaysOfMonth ==
    (date_list.called /\ FirstDayNotAfterToday(days_call)) =>
        LET n == IF TodayInMonth(days_call) THEN days_call.today.day
                 ELSE CalendarLength(days_call.year, days_call.month)
        IN  /\ Len(date_list.value) = n
            /\ \A i \in 1..n :
                  date_list.value[i] = date(days_call.year, days_call.month, i)

C9_Witness ==
    /\ date_list.called
    /\ days_call = [year |-> 2024, month |-> 2, today |-> date(2024, 2, 15)]
    /\ Len(date_list.value) = 15
    /\ date_list.value[15] = date(2024, 2, 15)

----------------------------------------------------------------------------
(* The claims about fetch_data and main *)

NumKinds  == Len(args.datatype)
NumMonths == Len(args.month)

\* the p-th (kind, month) pair of the run, kinds outermost
PairKind(p)  == args.datatype[((p - 1) \div NumMonths) + 1]
PairMonth(p) == args.month[((p - 1) % NumMonths) + 1]

\* the fetcher and the field list of a kind, as the documentation gives them
FetcherOf(kind) == IF kind = <<"b", "b">> THEN "fetch_bb_data" ELSE "fetch_hr_data"

FieldsOf(kind) ==
    IF kind = <<"b", "b">>
    THEN <<F_date, F_charged, F_drained, F_max, F_min>>
    ELSE <<F_timestamp, F_heartrate>>

AllDigits(t) ==
    \A i \in 1..Len(t) : t[i] \in {"0", "1", "2", "3", "4", "5", "6", "7", "8", "9"}

\* name reads <kind><year><two digits of the month>.csv
IsFileNameOf(name, kind, year, month) ==
    LET n  == Len(name)
        yy == SubSeq(name, 3, n - 6)
        mm == SubSeq(name, n - 5, n - 4)
    IN  /\ n >= 9
        /\ SubSeq(name, 1, 2) = kind
        /\ SubSeq(name, n - 3, n) = <<".", "c", "s", "v">>
        /\ AllDigits(yy) /\ yy[1] # "0" /\ DigitsValue(yy, 0) = year
        /\ AllDigits(mm) /\ DigitsValue(mm, 0) = month

RunSucceeded ==
    \/ pc = "returned"
    \/ pc = "exit" /\ sessions = 1 /\ exc = NoException

\* C1: the invocations of a run are, kind by kind and month by month in the
\* order given, the fetch of the pair and then its write: a run that
\* succeeds has made K*M fetches and K*M writes, no fetch comes before the
\* write of the pair before it, and a pair of zero rows is written as a file
\* of the header alone, after which the run goes on.
C1_FetchThenWriteInOrder ==
    LET n == Len(log)
    IN  /\ n <= 2 * NumKinds * NumMonths
        /\ \A q \in 1..n :
              LET p == (q + 1) \div 2
              IN  IF q % 2 = 1
                  THEN /\ log[q].op = "fetch"
                       /\ log[q].func = FetcherOf(PairKind(p))
                       /\ log[q].year = args.year
                       /\ log[q].month = PairMonth(p)
                  ELSE /\ log[q].op = "write"
                       /\ IsFileNameOf(log[q].filename, PairKind(p), args.year, PairMonth(p))
        /\ RunSucceeded => n = 2 * NumKinds * NumMonths
        /\ pc = "fetch" => n % 2 = 0 /\ n < 2 * NumKinds * NumMonths
        /\ pc = "write" => n % 2 = 1
        /\ (n > 0 /\ exc = NoException /\ log[n].op = "write" /\ log[n].rows = 0) =>
              /\ files[log[n].filename] = <<log[n].fieldnames>>
              /\ pc \in {"fetch", "returned", "exit"}

\* a run of two months of one kind has returned: the first month, not yet
\* begun on the day of the run, was written as a header alone, and the second
\* month was fetched and written with its rows after it
C1_Witness ==
    /\ pc = "returned"
    /\ args.datatype = <<HR>> /\ args.month = <<12, 2>>
    /\ Len(log) = 4
    /\ log[2].rows = 0 /\ log[4].rows > 0
    /\ files[log[2].filename] = <<log[2].fieldnames>>

\* C2: a run creates one session, before its first fetcher invocation, and
\* never another; every fetcher invocation of the run is given that session.
C2_OneSession ==
    /\ sessions <= 1
    /\ (log # <<>> \/ pc \in {"fetch", "write", "returned"}) => sessions = 1
    /\ sessions = 1 => api = 1
    /\ sessions = 0 => api = 0
    /\ \A q \in 1..Len(log) : log[q].op = "fetch" => log[q].api = 1

C2_Witness ==
    /\ pc = "returned"
    /\ args.datatype = <<BB, HR>> /\ args.month = <<2, 12>>
    /\ sessions = 1
    /\ log[1].api = 1 /\ log[7].api = 1

\* C3: a session creation that fails, for whatever reason, is raised as the
\* one error class of the package, and the run is aborted: no fetcher is
\* invoked, no remote call made and no file written.
C3_SessionFailureIsPackageError ==
    exc.origin = "create_api_session" =>
        /\ exc.type = GarmindownloaderException
        /\ log = <<>> /\ calls = 0 /\ files = files0

\* the part of C3 that holds: whatever the login raised, nothing was fetched
\* or written, and the two handled exceptions are wrapped
SessionFailureAborts ==
    exc.origin = "create_api_session" =>
        /\ log = <<>> /\ calls = 0 /\ files = files0 /\ sessions = 0
        /\ exc.cause \in {"GarthHTTPError", "AssertionError"} <=>
              exc.type = GarmindownloaderException

FailsNow == exc = NoException /\ exc' # NoException

\* what both readings of C4 share: the failing invocation is the last of
\* the run, the exception reaches the caller, and nothing happens after it
AbortsAtFailure ==
    /\ FailsNow =>
          /\ pc' = "raised"
          /\ exc'.origin \in {"fetch_bb_data", "fetch_hr_data", "write_data",
                              "create_api_session"}
          /\ exc'.origin # "create_api_session" => Len(log') = Len(log) + 1
          /\ \A q \in 1..Len(log) : log'[q] = log[q]
          /\ exc'.origin \in {"fetch_bb_data", "fetch_hr_data"} => files' = files
    /\ exc # NoException =>
          /\ exc' = exc /\ log' = log /\ files' = files
          /\ calls' = calls /\ sessions' = sessions

\* C4 as stated: when the fetch or the write of a pair fails, the run is
\* aborted, the error reaches the caller, and the files written for the
\* pairs before it are as they were written.
C4_Original ==
    [][ /\ AbortsAtFailure
        /\ FailsNow =>
              \A q \in 1..Len(log) :
                  log[q].op = "write" =>
                      /\ log[q].filename \in DOMAIN files'
                      /\ files'[log[q].filename] = files[log[q].filename] ]_vars

\* C4 as amended: when the fetch or the write of a pair fails, the run is
\* aborted, the error reaches the caller, and every file but the one the
\* failing write was writing is as it was.
C4_AbortKeepsOtherFiles ==
    [][ /\ AbortsAtFailure
        /\ FailsNow =>
              /\ DOMAIN files \subseteq DOMAIN files'
              /\ \A f \in DOMAIN files :
                    ~(exc'.origin = "write_data" /\ f = filename) => files'[f] = files[f] ]_vars

C4_Witness ==
    /\ pc = "raised"
    /\ exc.origin = "write_data"
    /\ Len(log) = 4
    /\ log[2].filename # log[4].filename
    /\ log[2].filename \in DOMAIN files
    /\ files[log[2].filename] = <<log[2].fieldnames>>

\* C5: every pair is fetched by the fetcher registered for its kind and
\* written to <kind><year><month in two digits>.csv with the field list of
\* its kind: date, charged, drained, max, min for bb; timestamp, heartrate
\* for hr.
C5_FetcherFileAndFields ==
    \A q \in 1..Len(log) :
        LET p == (q + 1) \div 2
        IN  /\ log[q].op = "fetch" => log[q].func = FetcherOf(PairKind(p))
            /\ log[q].op = "write" =>
                  /\ IsFileNameOf(log[q].filename, PairKind(p), args.year, PairMonth(p))
                  /\ Len(log[q].filename) = 12
                  /\ log[q].fieldnames = FieldsOf(PairKind(p))

C5_Witness ==
    /\ Len(log) = 4
    /\ log[1].func = "fetch_hr_data"
    /\ log[2].filename = <<"h", "r", "2", "0", "2", "4", "0", "2", ".", "c", "s", "v">>
    /\ log[2].fieldnames = <<F_timestamp, F_heartrate>>
    /\ log[3].func = "fetch_bb_data"
    /\ log[4].filename = <<"b", "b", "2", "0", "2", "4", "0", "2", ".", "c", "s", "v">>
    /\ log[4].fieldnames = <<F_date, F_charged, F_drained, F_max, F_min>>

\* C6: main catches every error fetch_data raises, prints its message once
\* to the error stream and ends with exit status 0; the only other exit
\* status is that of a usage error, before anything ran.
C6_MainCatchesAndExitsZero ==
    caller = "main" =>
        /\ exit_status \in {-1, 0, 2}
        /\ exit_status = 2 => exc = NoException /\ log = <<>> /\ sessions = 0
        /\ exc # NoException =>
              \/ pc = "raised" /\ exit_status = -1 /\ stderr = <<>>
              \/ pc = "exit" /\ exit_status = 0 /\ stderr = <<exc.msg>>
        /\ pc = "raised" => ENABLED MainExcept

C6_Witness ==
    /\ caller = "main" /\ pc = "exit" /\ exit_status = 0
    /\ exc.origin = "fetch_hr_data" /\ exc.type = "ConnectionError"
    /\ stderr = <<exc.msg>>

\* the items of a comma-separated text: the stretches between commas
ItemsOf(text) ==
    {SubSeq(text, i + 1, j - 1) :
        <<i, j>> \in {b \in (0..Len(text)) \X (1..(Len(text) + 1)) :
                        /\ b[1] < b[2]
                        /\ b[1] = 0 \/ text[b[1]] = ","
                        /\ b[2] = Len(text) + 1 \/ text[b[2]] = ","
                        /\ \A k \in (b[1] + 1)..(b[2] - 1) : text[k] # ","}}

InvalidMonthArgument(t) ==
    /\ \A m \in 1..12 : ~IsSingleMonth(t, m)
    /\ \A a \in 1..12 : \A b \in a..12 : ~IsMonthRange(t, a, b)

InvalidCommandLine ==
    \/ ~argv.datatype.given
    \/ \E item \in ItemsOf(argv.datatype.text) :
           Trimmed(item) \notin {<<"b", "b">>, <<"h", "r">>}
    \/ InvalidMonthArgument(argv.month)

\* C7: a command line with a datatype other than bb and hr, without the
\* datatype option or with an invalid month ends the process with a non-zero
\* exit status before any network activity: no session, no fetch, no file.
C7_UsageErrorBeforeNetwork ==
    (caller = "main" /\ InvalidCommandLine) =>
        /\ pc \in {"main", "exit"}
        /\ pc = "exit" => exit_status # 0 /\ exit_status # -1
        /\ sessions = 0 /\ api = 0 /\ calls = 0
        /\ log = <<>> /\ files = files0

C7_Witness ==
    /\ caller = "main" /\ pc = "exit" /\ exit_status = 2
    /\ argv.year = <<"2", "0", "2", "4">> /\ argv.month = <<"1", "-", "2">>
    /\ argv.datatype = [given |-> TRUE, text |-> BB \o <<",", "x", "x">>]
    /\ files0 = StaleFile /\ files = files0

\* C10: a write that fails, on open or while writing, on an I/O or a
\* serialization error, is raised as the error class the package exports and
\* the tests expect, GarmindownloaderError, with its cause.
C10_WriteFailureIsExportedError ==
    exc.origin = "write_data" =>
        /\ exc.type = GarmindownloaderError
        /\ exc.cause \in {"OSError", "csv.Error"}

\* what the code does instead: the failure is raised as the class
\* exceptions.py defines, with its cause, and the write is not tried again
WriteFailureIsWrapped ==
    exc.origin = "write_data" =>
        /\ exc.type = GarmindownloaderException
        /\ exc.cause \in {"OSError", "csv.Error"}
        /\ pc \in {"raised", "exit"}
        /\ log[Len(log)].op = "write"

----------------------------------------------------------------------------
(* Specification of the fetchers alone: one call of fetch_bb_data or of     *)
(* fetch_hr_data, for any month and day of the run, against any service     *)

\* the sample arrays of a per-day object: none, numbers, numbers and nulls
SampleArrays ==
    {<<>>, <<VInt(30)>>, <<VInt(50), VInt(70), VInt(30)>>, <<VInt(50), VNone, VInt(30)>>,
     <<VNone>>, <<VNone, VNone>>}

BbObjects(arrays) ==
    [k \in 1..Len(arrays) |-> [charged |-> 50 + k, drained |-> 40 + k, samples |-> arrays[k]]]

\* the answers of the heart rate query for the d-th day
HrAnswers(d) ==
    {HrAnswer("absent", <<>>), HrAnswer("null", <<>>)}
        \cup {HrAnswer("list", HrPairs(d, n)) : n \in 0..MaxSamples}

BbServices ==
    {[bb |-> BbObjects(arrays), hr |-> ServiceOf(0).hr] :
        arrays \in SeqsUpTo(SampleArrays, MaxSamples)}

HrServices ==
    {[bb |-> <<>>, hr |-> [first |-> f, second |-> g, other |-> o]] :
        f \in HrAnswers(1), g \in HrAnswers(2), o \in HrAnswers(3)}

FetchMonths == {2, 12}

\* the days of the run: the first, the second and a later day of February
\* 2024, and a day after the year
FetchTodays == {date(2024, 2, 1), date(2024, 2, 2), date(2024, 2, 15), date(2025, 1, 1)}

InitFetch ==
    /\ \/ fetch_call \in [func : {"fetch_bb_data"}, year : {2024}, month : FetchMonths,
                          today : FetchTodays, service : BbServices]
       \/ fetch_call \in [func : {"fetch_hr_data"}, year : {2024}, month : FetchMonths,
                          today : FetchTodays, service : HrServices]
    /\ fetch_result = NotFetched
    /\ month_str = <<>>
    /\ month_list = NotCalled
    /\ days_call = [year |-> 1, month |-> 1, today |-> NoDate]
    /\ date_list = NoDays
    /\ IdleWrite
    /\ IdleMain

FetchBbData ==
    /\ fetch_call.func = "fetch_bb_data"
    /\ fetch_result = NotFetched
    /\ fetch_result' \in fetch_bb_data(fetch_call.service, RemoteErrors, fetch_call.year,
                                       fetch_call.month, fetch_call.today)
    /\ UNCHANGED <<fetch_call, parse_vars, days_vars, write_vars, main_vars>>

FetchHrData ==
    /\ fetch_call.func = "fetch_hr_data"
    /\ fetch_result = NotFetched
    /\ fetch_result' \in fetch_hr_data(fetch_call.service, RemoteErrors, fetch_call.year,
                                       fetch_call.month, fetch_call.today)
    /\ UNCHANGED <<fetch_call, parse_vars, days_vars, write_vars, main_vars>>

NextFetch == FetchBbData \/ FetchHrData

SpecFetch == InitFetch /\ [][NextFetch]_vars

\* the days a call of a fetcher alone ranges over
FetchDays == get_days_of_month(fetch_call.month, fetch_call.year, fetch_call.today)

BbReturned == fetch_call.func = "fetch_bb_data" /\ fetch_result.raised = "none"

HrReturned == fetch_call.func = "fetch_hr_data" /\ fetch_result.raised = "none"

\* the per-day objects the service answers the ranged query with
BbResponse ==
    get_body_battery(fetch_call.service, isoformat(FetchDays[1]),
                     isoformat(FetchDays[Len(FetchDays)]))

\* the numbers among the samples of a per-day object
NumericSamples(day) ==
    {day.bodyBatteryValuesArray[j][2].i :
        j \in {i \in 1..Len(day.bodyBatteryValuesArray) :
                  day.bodyBatteryValuesArray[i][2].t = "int"}}

AllNumeric(day) ==
    \A j \in 1..Len(day.bodyBatteryValuesArray) : day.bodyBatteryValuesArray[j][2].t = "int"

IsGreatest(v, S) == v.t = "int" /\ v.i \in S /\ \A x \in S : x <= v.i

IsLeast(v, S) == v.t = "int" /\ v.i \in S /\ \A x \in S : x >= v.i

----------------------------------------------------------------------------
(* Specification of write_data alone: any rows, with keys beside the field  *)
(* names and without some of them, written into an empty directory or over  *)
(* a file of the same name                                                  *)

F_extra == <<"e", "x", "t", "r", "a">>

\* the value a row holds under a key, when it holds the key
RowValue(key) ==
    IF key = F_date THEN VStr(<<"2", "0", "2", "4", "-", "0", "5", "-", "0", "1">>)
    ELSE IF key = F_charged THEN VInt(50)
    ELSE VInt(9)

\* the rows: any set of the keys date, charged and extra, and a row whose
\* charged is None
WriteRows ==
    {[key \in K |-> RowValue(key)] : K \in SUBSET {F_date, F_charged, F_extra}}
        \cup {(F_date :> RowValue(F_date)) @@ (F_charged :> VNone)}

WriteFieldLists == {<<F_date, F_charged>>, <<F_charged, F_date>>, <<F_charged>>, <<>>}

WriteName == <<"t", "e", "s", "t", ".", "c", "s", "v">>

InitWrite ==
    /\ write_call \in [data : SeqsUpTo(WriteRows, MaxRows), filename : {WriteName},
                       fieldnames : WriteFieldLists,
                       files : {NoFiles, WriteName :> <<<<F_extra>>, <<<<"o", "l", "d">>>>>>}]
    /\ write_result = NotWritten
    /\ month_str = <<>>
    /\ month_list = NotCalled
    /\ days_call = [year |-> 1, month |-> 1, today |-> NoDate]
    /\ date_list = NoDays
    /\ IdleFetch
    /\ IdleMain

WriteData ==
    /\ write_result = NotWritten
    /\ write_result' \in write_data(write_call.files, write_call.data, write_call.filename,
                                    write_call.fieldnames)
    /\ UNCHANGED <<write_call, parse_vars, days_vars, fetch_vars, main_vars>>

NextWrite == WriteData

SpecWrite == InitWrite /\ [][NextWrite]_vars

\* the text of the cell of a row under a field name, as the file must show it
ExpectedCell(row, field) ==
    IF field \notin DOMAIN row THEN <<>>
    ELSE IF row[field] = VNone THEN <<>>
    ELSE IF field = F_date THEN <<"2", "0", "2", "4", "-", "0", "5", "-", "0", "1">>
    ELSE IF field = F_charged THEN <<"5", "0">>
    ELSE <<"9">>

\* C11: the file write_data has written holds the field names, as given, in
\* its first line, then a line a row, in the order of the rows, of one cell a
\* field name: the text of the row's value, empty where the row has no such
\* key (or None); no key beside the field names shows; and write_data fails
\* for an I/O or csv error only, never for the keys of a row.
C11_HeaderThenListedFields ==
    LET c == write_call
        w == write_result
    IN  /\ w.raised.type # "not called" =>
              /\ w.raised = NoException \/ w.raised.cause \in {"OSError", "csv.Error"}
        /\ w.raised = NoException =>
              LET lines == w.files[c.filename]
              IN  /\ DOMAIN w.files = DOMAIN c.files \cup {c.filename}
                  /\ Len(lines) = 1 + Len(c.data)
                  /\ lines[1] = c.fieldnames
                  /\ \A i \in 1..Len(c.data) :
                        /\ Len(lines[i + 1]) = Len(c.fieldnames)
                        /\ \A j \in 1..Len(c.fieldnames) :
                              lines[i + 1][j] = ExpectedCell(c.data[i], c.fieldnames[j])

\* two rows are written under date and charged: the first has a key beside
\* them, the second lacks charged
C11_Witness ==
    /\ write_result.raised = NoException
    /\ write_call.fieldnames = <<F_date, F_charged>>
    /\ Len(write_call.data) = 2
    /\ DOMAIN write_call.data[1] = {F_date, F_charged, F_extra}
    /\ DOMAIN write_call.data[2] = {F_date}
    /\ write_result.files[WriteName][3] = <<RowValue(F_date).s, <<>>>>

\* C12: fetch_bb_data returns a row a per-day object of the response, in the
\* order of the response, with date, charged and drained as the object has
\* them, max the greatest and min the least of the object's samples; for an
\* object without samples max and min are None, and the fetcher has returned.
C12_RowPerDayObject ==
    BbReturned =>
        /\ Len(fetch_result.data) = Len(BbResponse)
        /\ \A k \in 1..Len(BbResponse) :
              LET day == BbResponse[k]
                  row == fetch_result.data[k]
              IN  /\ DOMAIN row = {F_date, F_charged, F_drained, F_max, F_min}
                  /\ row[F_date] = VStr(day.date)
                  /\ row[F_charged] = VInt(day.charged)
                  /\ row[F_drained] = VInt(day.drained)
                  /\ (day.bodyBatteryValuesArray # <<>> /\ AllNumeric(day)) =>
                        /\ IsGreatest(row[F_max], NumericSamples(day))
                        /\ IsLeast(row[F_min], NumericSamples(day))
                  /\ day.bodyBatteryValuesArray = <<>> =>
                        row[F_max] = VNone /\ row[F_min] = VNone

\* the response holds an object of the samples 50, 70, 30 and then an object
\* without samples: the rows are (max 70, min 30) and (None, None)
C12_Witness ==
    /\ BbReturned
    /\ Len(fetch_result.data) = 2
    /\ Len(BbResponse[1].bodyBatteryValuesArray) = 3 /\ AllNumeric(BbResponse[1])
    /\ fetch_result.data[1][F_max] = VInt(70) /\ fetch_result.data[1][F_min] = VInt(30)
    /\ BbResponse[2].bodyBatteryValuesArray = <<>>
    /\ fetch_result.data[2][F_max] = VNone

\* C13: null samples never raise and are left out of the aggregation: for an
\* object whose samples hold a number, max is the greatest and min the least
\* of the numbers among them.
C13_NullSamplesExcluded ==
    /\ fetch_call.func = "fetch_bb_data" =>
          fetch_result.raised \in {"not called", "none", "IndexError"} \cup RemoteErrors
    /\ BbReturned =>
          \A k \in 1..Len(BbResponse) :
              NumericSamples(BbResponse[k]) # {} =>
                  /\ IsGreatest(fetch_result.data[k][F_max], NumericSamples(BbResponse[k]))
                  /\ IsLeast(fetch_result.data[k][F_min], NumericSamples(BbResponse[k]))

\* what holds of null samples: they never raise, and an object that holds a
\* null beside another sample has max and min None
NullSamplesNeverRaise ==
    /\ fetch_call.func = "fetch_bb_data" =>
          fetch_result.raised \in {"not called", "none", "IndexError"} \cup RemoteErrors
    /\ BbReturned =>
          \A k \in 1..Len(BbResponse) :
              (~AllNumeric(BbResponse[k]) /\ Len(BbResponse[k].bodyBatteryValuesArray) > 1) =>
                  /\ fetch_result.data[k][F_max] = VNone
                  /\ fetch_result.data[k][F_min] = VNone

\* the answer of the service for a day of the range
HrAnswerOf(day) == get_heart_rates(fetch_call.service, isoformat(day))

RECURSIVE PairsFrom(_, _)
\* the (epoch_millis, bpm) pairs of the answers from the i-th of the days on,
\* a day after the other
PairsFrom(days, i) ==
    IF i > Len(days) THEN <<>>
    ELSE HrAnswerOf(days[i]).heartRateValues \o PairsFrom(days, i + 1)

\* C14: a day whose answer has a null, an absent or an empty sample list gives
\* no row and no error: fetch_hr_data raises for a failing remote call only,
\* and when it returns it has called every day of the range and holds the rows
\* of the other days.
C14_DayWithoutSamplesIsSkipped ==
    fetch_call.func = "fetch_hr_data" =>
        /\ fetch_result.raised \in {"not called", "none"} \cup RemoteErrors
        /\ fetch_result.raised = "none" =>
              LET days == FetchDays
              IN  /\ Len(fetch_result.calls) = Len(days)
                  /\ Len(fetch_result.data) = Len(PairsFrom(days, 1))

\* what holds of a day without samples: a null or an empty list gives no row
\* and no error, and the other days are called and give their rows; an
\* answer without the key is the one that raises (KeyError)
NullOrEmptyDayIsSkipped ==
    fetch_call.func = "fetch_hr_data" =>
        LET days == FetchDays
        IN  /\ fetch_result.raised \in {"not called", "none", "KeyError"} \cup RemoteErrors
            /\ fetch_result.raised = "KeyError" =>
                  \E i \in 1..Len(days) : HrAnswerOf(days[i]).key = "absent"
            /\ fetch_result.raised = "none" =>
                  /\ \A i \in 1..Len(days) : HrAnswerOf(days[i]).key # "absent"
                  /\ Len(fetch_result.calls) = Len(days)
                  /\ Len(fetch_result.data) = Len(PairsFrom(days, 1))

----------------------------------------------------------------------------
(* Claims on the run of fetch_data, continued *)

\* a remote metric call of a fetcher has failed
RemoteCallFailed ==
    /\ exc.origin \in {"fetch_bb_data", "fetch_hr_data"}
    /\ exc.type \in RemoteErrors \/ exc.cause \in RemoteErrors

\* C15 as stated: a failing remote metric call reaches the caller of
\* fetch_data as the error class of the package (or a fetch error class of
\* its own), not as the exception of the library, and the run is aborted.
C15_Original ==
    RemoteCallFailed =>
        /\ exc.type \in {GarmindownloaderException, GarmindownloaderError, "FetchError"}
        /\ pc \in {"raised", "exit"}
        /\ log[Len(log)].op = "fetch" /\ log[Len(log)].func = exc.origin

\* C15 as amended: a failing remote metric call reaches the caller of
\* fetch_data as the very exception the library raised, unwrapped, and the
\* run is aborted: the failing fetch is the last invocation of the run.
C15_RemoteFailurePropagatesRaw ==
    RemoteCallFailed =>
        /\ exc.type \in RemoteErrors /\ exc.cause = "none"
        /\ pc \in {"raised", "exit"}
        /\ calls >= 1
        /\ log[Len(log)].op = "fetch" /\ log[Len(log)].func = exc.origin
        /\ Len(log) < 2 * NumKinds * NumMonths

\* the first pair is fetched and written, the fetch of the second fails with
\* a connection error and fetch_data has raised it
C15_Witness ==
    /\ pc = "raised"
    /\ exc.type = "ConnectionError" /\ exc.origin = "fetch_hr_data"
    /\ Len(log) = 3
    /\ log[2].filename \in DOMAIN files

\* the last write of the log that names the file of the q-th entry
LastWriteOf(q) ==
    CHOOSE r \in 1..Len(log) :
        /\ log[r].op = "write" /\ log[r].filename = log[q].filename
        /\ \A t \in (r + 1)..Len(log) :
              ~(log[t].op = "write" /\ log[t].filename = log[q].filename)

\* C16: a write replaces its file: after a write that returned, the file
\* holds the header and the rows of that write and nothing else, whether the
\* file was there before the run or was written for the same kind and month
\* earlier in it; a month given twice is fetched and written twice, and at the
\* end of a run every file holds as many lines as its last write wrote.
C16_LastWriteWins ==
    LET n == Len(log)
    IN  /\ (n > 0 /\ exc = NoException /\ log[n].op = "write") =>
              /\ log[n].filename \in DOMAIN files
              /\ files[log[n].filename] = csv_lines(data, log[n].fieldnames)
              /\ Len(files[log[n].filename]) = 1 + log[n].rows
        /\ RunSucceeded =>
              /\ n = 2 * NumKinds * NumMonths
              /\ \A q \in 1..n :
                    log[q].op = "write" =>
                        Len(files[log[q].filename]) = 1 + log[LastWriteOf(q)].rows

\* February is given twice for bb, in a directory that holds bb202402.csv of
\* an earlier run: both writes are made, and the file holds the second
C16_Witness ==
    /\ pc = "returned"
    /\ files0 = StaleFile
    /\ args.datatype = <<BB>> /\ args.month = <<2, 2>>
    /\ Len(log) = 4
    /\ log[2].filename = log[4].filename /\ log[2].filename \in DOMAIN files0
    /\ log[4].rows > 0
    /\ files[log[4].filename] = csv_lines(data, log[4].fieldnames)

----------------------------------------------------------------------------
(* Specification of create_api_session alone: the first line of a direct    *)
(* call of fetch_data, in any environment                                   *)

InitSession ==
    /\ environ \in Environs
    /\ caller = "direct"
    /\ argv = NoArgv
    /\ pc = "fetch_data"
    /\ files0 \in {NoFiles, StaleFile}
    /\ files = files0
    /\ exit_status = -1
    /\ stderr = <<>>
    /\ today = NoDate
    /\ remote = 0
    /\ api = 0
    /\ sessions = 0
    /\ kind_i = 1
    /\ month_i = 1
    /\ data = <<>>
    /\ filename = <<>>
    /\ log = <<>>
    /\ calls = 0
    /\ exc = NoException
    /\ logins = <<>>
    /\ args \in [year : DirectYears, month : SeqsUpTo(DirectMonths, MaxMonths),
                 datatype : SeqsUpTo({BB, HR}, MaxKinds)]
    /\ month_str = <<>>
    /\ month_list = NotCalled
    /\ days_call = [year |-> 1, month |-> 1, today |-> NoDate]
    /\ date_list = NoDays
    /\ IdleFetch /\ IdleWrite

NextSession == CreateApiSession

SpecSession == InitSession /\ [][NextSession]_vars

\* C17: create_api_session logs in once a call, with the path the variable
\* GARMINTOKENS holds when it is set and not empty, with ~/.garth when it is
\* unset or empty, and when the login succeeds what it returns is the client
\* that logged in.
C17_TokenStoreFromEnvironment ==
    /\ pc = "fetch_data" => logins = <<>>
    /\ pc # "fetch_data" =>
          /\ Len(logins) = 1
          /\ ("GARMINTOKENS" \in DOMAIN environ /\ environ["GARMINTOKENS"] # "") =>
                logins[1] = environ["GARMINTOKENS"]
          /\ "GARMINTOKENS" \notin DOMAIN environ => logins[1] = "~/.garth"
          /\ ("GARMINTOKENS" \in DOMAIN environ /\ environ["GARMINTOKENS"] = "") =>
                logins[1] = "~/.garth"
          /\ exc.origin # "create_api_session" => api = 1 /\ sessions = 1
          /\ exc.origin = "create_api_session" => api = 0 /\ sessions = 0

\* the variable holds /custom/path: the client has logged in with it and is
\* returned
C17_Witness ==
    /\ pc # "fetch_data"
    /\ "GARMINTOKENS" \in DOMAIN environ
    /\ logins = <<"/custom/path">>
    /\ api = 1

----------------------------------------------------------------------------
(* Claims on the fetchers alone, continued *)

\* the writing of a number below 100 in two digits
TwoDigits(n) ==
    LET digit == <<"0", "1", "2", "3", "4", "5", "6", "7", "8", "9">>
    IN  <<digit[(n \div 10) + 1], digit[(n % 10) + 1]>>

\* the ISO date of a day of the year of the model
IsoDate2024(m, d) == <<"2", "0", "2", "4", "-">> \o TwoDigits(m) \o <<"-">> \o TwoDigits(d)

\* the number of the last day of the month that can be asked for: the day of
\* today in the month of today, the last of a month gone by, 0 of a month to
\* come
LastQueryableDay ==
    LET c == fetch_call
    IN  IF c.today.year = c.year /\ c.today.month = c.month THEN c.today.day
        ELSE IF c.today.year > c.year \/ (c.today.year = c.year /\ c.today.month > c.month)
             THEN CalendarLength(c.year, c.month)
        ELSE 0

\* C18: for a month with a day that can be asked for, fetch_bb_data makes one
\* remote call, from the first day of the month to the earlier of its last
\* day and today, however many days that is and however many objects come
\* back, and it touches neither the directory nor the state of the run.
C18_OneRangedCall ==
    (fetch_call.func = "fetch_bb_data" /\ fetch_result.raised # "not called"
        /\ LastQueryableDay >= 1) =>
        /\ fetch_result.raised \in {"none"} \cup RemoteErrors
        /\ fetch_result.calls =
              <<Request("get_body_battery",
                        <<IsoDate2024(fetch_call.month, 1),
                          IsoDate2024(fetch_call.month, LastQueryableDay)>>)>>
        /\ files = files0 /\ log = <<>> /\ sessions = 0 /\ logins = <<>>

\* on 15 February the month is asked for from the 1st to the 15th in one
\* call, which answers with two objects
C18_Witness ==
    /\ BbReturned
    /\ fetch_call.month = 2 /\ fetch_call.today = date(2024, 2, 15)
    /\ Len(fetch_result.calls) = 1
    /\ fetch_result.calls[1].args[2] =
          <<"2", "0", "2", "4", "-", "0", "2", "-", "1", "5">>
    /\ Len(fetch_result.data) = 2

\* C19: fetch_hr_data calls the service once a day of the range, for the
\* days in ascending order from the first: the calls made are the first days
\* of the range, none left out and none repeated, and all the N days of the
\* range when the fetcher returns.
C19_OneCallPerDay ==
    (fetch_call.func = "fetch_hr_data" /\ fetch_result.raised # "not called") =>
        /\ Len(fetch_result.calls) <= LastQueryableDay
        /\ \A i \in 1..Len(fetch_result.calls) :
              fetch_result.calls[i] =
                  Request("get_heart_rates", <<IsoDate2024(fetch_call.month, i)>>)
        /\ fetch_result.raised = "none" => Len(fetch_result.calls) = LastQueryableDay
        /\ fetch_result.raised # "none" => Len(fetch_result.calls) >= 1

\* after the year, the 31 days of December are called, the last on the 31st
C19_Witness ==
    /\ HrReturned
    /\ fetch_call.month = 12 /\ fetch_call.today = date(2025, 1, 1)
    /\ Len(fetch_result.calls) = 31
    /\ fetch_result.calls[31].args[1] =
          <<"2", "0", "2", "4", "-", "1", "2", "-", "3", "1">>

\* the days of the range by their numbers
QueryableDays == [i \in 1..LastQueryableDay |-> date(fetch_call.year, fetch_call.month, i)]

\* C20: the rows fetch_hr_data returns are, day after day in ascending order
\* and pair after pair in the order of the answer, a row a pair: its heartrate
\* the bpm, its timestamp the date and time of the whole seconds of the
\* epoch_millis (the part below a second dropped); there are as many rows as
\* pairs.
C20_RowPerPair ==
    HrReturned =>
        LET pairs == PairsFrom(QueryableDays, 1)
        IN  /\ Len(fetch_result.data) = Len(pairs)
            /\ \A j \in 1..Len(pairs) :
                  LET row == fetch_result.data[j]
                  IN  /\ DOMAIN row = {F_timestamp, F_heartrate}
                      /\ row[F_heartrate] = VInt(pairs[j][2])
                      /\ row[F_timestamp].t = "datetime"
                      /\ 1000 * row[F_timestamp].i <= pairs[j][1]
                      /\ pairs[j][1] < 1000 * row[F_timestamp].i + 1000

\* on 2 February the first day answers with two pairs and the second with
\* one: three rows, the last of 70 bpm at 86461 seconds (86461999 ms)
C20_Witness ==
    /\ HrReturned
    /\ fetch_call.month = 2 /\ fetch_call.today = date(2024, 2, 2)
    /\ Len(fetch_call.service.hr.first.heartRateValues) = 2
    /\ fetch_call.service.hr.second.heartRateValues = <<<<86461999, 70>>>>
    /\ Len(fetch_result.data) = 3
    /\ fetch_result.data[3][F_heartrate] = VInt(70)
    /\ fetch_result.data[3][F_timestamp] = VDatetime(86461)

----------------------------------------------------------------------------
(* Claims on get_days_of_month alone, continued *)

\* the day d is today or before it
NotAfterToday(d, t) ==
    \/ d.year < t.year
    \/ d.year = t.year /\ d.month < t.month
    \/ d.year = t.year /\ d.month = t.month /\ d.day <= t.day

\* the month asked for begins after today
MonthToCome(c) ==
    \/ c.year > c.today.year
    \/ c.year = c.today.year /\ c.month > c.today.month

\* C21: for a month that begins after today get_days_of_month returns the
\* empty list; and whatever the month, it returns: no date of its list is
\* after today and none is outside the month asked for.
C21_FutureMonthIsEmpty ==
    date_list.called =>
        /\ MonthToCome(days_call) => date_list.value = <<>>
        /\ \A i \in 1..Len(date_list.value) :
              /\ date_list.value[i].year = days_call.year
              /\ date_list.value[i].month = days_call.month
              /\ date_list.value[i].day \in 1..CalendarLength(days_call.year, days_call.month)
              /\ NotAfterToday(date_list.value[i], days_call.today)

\* February 2024 is asked for on 31 January 2024, the day before it begins:
\* the list is empty
C21_Witness ==
    /\ date_list.called
    /\ days_call = [year |-> 2024, month |-> 2, today |-> date(2024, 1, 31)]
    /\ date_list.value = <<>>

----------------------------------------------------------------------------
(* Claims on the run of fetch_data: a month that has not begun *)

\* the month m of the year of the run begins after the day of the run
BeginsAfterToday(m) ==
    \/ args.year > today.year
    \/ args.year = today.year /\ m > today.month

\* this step is the invocation of a fetcher, or of write_data
InvokesNow == Len(log') = Len(log) + 1

\* C22: in a run of fetch_data, a month that has not begun is handled
\* differently by the two kinds.  The hr fetcher makes no remote call and
\* returns no rows, a file of the header alone is written and the run goes
\* on.  The bb fetcher fails with an IndexError before any remote call, no
\* file is written for the pair and the run ends there: when bb comes before
\* hr and a month of the run has not begun, no hr fetch is made and no hr
\* file written, for any month.
C22_FutureMonthDiverges ==
    [][ /\ (InvokesNow /\ log'[Len(log')].op = "fetch"
               /\ BeginsAfterToday(log'[Len(log')].month)) =>
              /\ calls' = calls /\ files' = files
              /\ IF log'[Len(log')].func = "fetch_hr_data"
                 THEN pc' = "write" /\ data' = <<>> /\ exc' = NoException
                 ELSE /\ pc' = "raised"
                      /\ exc'.type = "IndexError" /\ exc'.origin = "fetch_bb_data"
        /\ (InvokesNow /\ log'[Len(log')].op = "write"
               /\ log[Len(log)].func = "fetch_hr_data"
               /\ BeginsAfterToday(log[Len(log)].month)) =>
              /\ log'[Len(log')].rows = 0
              /\ exc' = NoException =>
                    /\ files'[log'[Len(log')].filename] = <<<<F_timestamp, F_heartrate>>>>
                    /\ pc' \in {"fetch", "returned"}
        /\ exc.type = "IndexError" =>
              /\ log' = log /\ files' = files /\ calls' = calls /\ exc' = exc
              /\ log[Len(log)].func = "fetch_bb_data"
              /\ LET name == filename_of(BB, args.year, log[Len(log)].month)
                 IN  /\ \A q \in 1..Len(log) : log[q].filename # name
                     /\ name \in DOMAIN files =>
                           name \in DOMAIN files0 /\ files[name] = files0[name]
        /\ (sessions = 1 /\ args.datatype = <<BB, HR>>
               /\ \E i \in 1..Len(args.month) : BeginsAfterToday(args.month[i])) =>
              /\ \A q \in 1..Len(log) : log[q].func # "fetch_hr_data"
              /\ \A f \in DOMAIN files : SubSeq(f, 1, 2) # HR
              /\ pc # "returned" ]_vars

\* in February, December is asked for, hr before bb: hr202412.csv is written
\* with its header alone and without a remote call, then the bb fetcher
\* raises IndexError and the run ends with no bb202412.csv
C22_Witness ==
    /\ pc = "raised"
    /\ args.datatype = <<HR, BB>> /\ args.month = <<12>>
    /\ today = date(2024, 2, 15)
    /\ Len(log) = 3 /\ log[2].rows = 0
    /\ calls = 0
    /\ files[filename_of(HR, 2024, 12)] = <<<<F_timestamp, F_heartrate>>>>
    /\ filename_of(BB, 2024, 12) \notin DOMAIN files
    /\ exc.type = "IndexError"

=============================================================================
